---- MODULE Spec2Model ----
(***************************************************************************)
(* finetune/adapter_v2.py: the adapter-v2 finetuning driver.               *)
(*                                                                         *)
(* One process per device runs main(): seeding, model construction,        *)
(* checkpoint loading, adapter injection, freezing, optimizer             *)
(* construction, then train(): the gradient-accumulating loop with linear  *)
(* learning-rate warmup, periodic validation (followed by a barrier) and   *)
(* periodic adapter checkpoints, and at the end the final adapter save.    *)
(*                                                                         *)
(* Spec        runs the module's own hyperparameter values (devices = 1).  *)
(* SpecScaled  runs the same code with devices, micro_batch_size,          *)
(*             epoch_size, eval_interval and save_interval edited to small *)
(*             values, so that several processes, several validations and  *)
(*             several checkpoints fit in the state space.                 *)
(* FairSpecScaled adds weak fairness of every process's steps, for the     *)
(*             scaled runs with the largest save_interval.                 *)
(***************************************************************************)
EXTENDS Integers, Sequences, FiniteSets, TLC

VARIABLES
    hparams,            \* the module-level hyperparameters (lines 26-46)
    pc,                 \* per process: position in main()/train()
    seed,               \* per process: the seed last given to fabric.seed_everything (0: none yet)
    init_seed,          \* per process: the seed in force when the model was constructed
    makedirs_by,        \* the global ranks that called os.makedirs(out_dir)
    params,             \* per process: names of model.parameters()
    requires_grad,      \* per process: names of the parameters with requires_grad
    loaded,             \* per process: names of the parameters load_state_dict filled
    meta_requires_grad, \* per process: requires_grad of meta_model (train, lines 140-144)
    opt_params,         \* per process: the parameters handed to AdamW
    fabric_setup_done,  \* per process: fabric.setup(model, optimizer) has returned
    lr,                 \* per process: param_group["lr"], an IEEE-754 double
    lr_writes,          \* per process: number of assignments to param_group["lr"] in train()
    iter_num,           \* per process: loop variable of train() (-1: loop not entered)
    step_count,         \* per process: optimizer steps taken
    is_accumulating,    \* per process: local of train(), line 167
    grad_count,         \* per process: backward passes accumulated in .grad since zero_grad
    loss_divisor,       \* per process: the divisor of the loss of the last backward pass
    backward_synced,    \* per process: the last backward pass synchronised gradients
    last_step_iter,     \* per process: iter_num of the last optimizer.step() (-1: none)
    validate_log,       \* per process: the calls of validate(), in order
    save_log,           \* per process: the calls of fabric.save(), in order
    barrier_count       \* per process: calls of fabric.barrier() entered

mainVars == <<seed, init_seed, makedirs_by, params, requires_grad, loaded, opt_params, fabric_setup_done>>
loopVars == <<iter_num, step_count, is_accumulating, grad_count, loss_divisor, backward_synced, last_step_iter>>
lrVars == <<lr, lr_writes>>
logVars == <<validate_log, save_log, barrier_count>>
vars == <<hparams, pc, mainVars, meta_requires_grad, loopVars, lrVars, logVars>>

(***************************************************************************)
(* IEEE-754 binary64 arithmetic, as far as train() uses it: a float times  *)
(* a Python int and a float divided by an integral float, each rounded to  *)
(* nearest, ties to even. A float is [m, e] with value m * 2^e, the        *)
(* mantissa m held as MantissaLimbs limbs of LimbBits bits, least          *)
(* significant first, normalised to exactly Precision bits (or all zero).  *)
(***************************************************************************)
Precision == 53
LimbBits == 15
MantissaLimbs == 4
GuardLimbs == 5
LimbBase == 2^LimbBits

\* F(v) with v evaluated once
Bind(v, F(_)) == CHOOSE r \in {F(x) : x \in {v}} : TRUE

Limb(N, j) == IF j < 1 \/ j > Len(N) THEN 0 ELSE N[j]

BitAt(N, i) == IF i < 0 THEN 0 ELSE (Limb(N, (i \div LimbBits) + 1) \div 2^(i % LimbBits)) % 2

\* the index of the most significant nonzero limb (0: none)
TopLimb(N) ==
    IF \A i \in 1..Len(N) : N[i] = 0 THEN 0
    ELSE CHOOSE t \in 1..Len(N) : N[t] # 0 /\ \A u \in (t + 1)..Len(N) : N[u] = 0

SmallBitLen(x) == IF x = 0 THEN 0 ELSE CHOOSE b \in 1..LimbBits : 2^(b - 1) <= x /\ x < 2^b

BitLen(N) == Bind(TopLimb(N), LAMBDA t : IF t = 0 THEN 0 ELSE LimbBits * (t - 1) + SmallBitLen(N[t]))

\* the `width` bits of N from bit `lo` up (lo may be negative: bits below 0 are 0)
Window(N, lo, width) ==
    LET j == (lo + LimbBits * MantissaLimbs) \div LimbBits - MantissaLimbs
        s == (lo + LimbBits * MantissaLimbs) % LimbBits
    IN  ((Limb(N, j + 1) \div 2^s) + (Limb(N, j + 2) % 2^s) * 2^(LimbBits - s)) % 2^width

RECURSIVE Zeros(_)
Zeros(c) == IF c = 0 THEN <<>> ELSE <<0>> \o Zeros(c - 1)

\* N * x + carry, limb by limb from the least significant
RECURSIVE MulCarry(_, _, _)
MulCarry(N, x, carry) ==
    IF N = <<>> THEN <<carry>>
    ELSE Bind(Head(N) * x + carry, LAMBDA t :
         Bind(Tail(N), LAMBDA rest : <<t % LimbBase>> \o MulCarry(rest, x, t \div LimbBase)))

MulSmall(N, x) == MulCarry(N, x, 0)

\* (r * LimbBase^Len(N) + N) divided by x, limb by limb from the most significant
RECURSIVE DivRem(_, _, _)
DivRem(N, x, r) ==
    IF N = <<>> THEN [quot |-> <<>>, rem |-> r]
    ELSE Bind(r * LimbBase + N[Len(N)], LAMBDA cur :
         Bind(SubSeq(N, 1, Len(N) - 1), LAMBDA rest :
         Bind(DivRem(rest, x, cur % x), LAMBDA lower :
              [quot |-> Append(lower.quot, cur \div x), rem |-> lower.rem])))

DivSmall(N, x) == DivRem(N, x, 0)

ShiftLimbs(N, c) == Zeros(c) \o N

RECURSIVE AddCarry(_, _)
AddCarry(N, carry) ==
    IF N = <<>> THEN <<>>
    ELSE Bind(Head(N) + carry, LAMBDA t :
         Bind(Tail(N), LAMBDA rest : <<t % LimbBase>> \o AddCarry(rest, t \div LimbBase)))

AnyBitBelow(N, i) == \E b \in 0..(i - 1) : BitAt(N, b) = 1

Zero == [m |-> Zeros(MantissaLimbs), e |-> 0]

\* the Precision bits of N from bit `lo` up, as MantissaLimbs limbs
RECURSIVE Mantissa(_, _, _)
Mantissa(N, lo, k) ==
    IF k > MantissaLimbs THEN <<>>
    ELSE <<Window(N, lo + LimbBits * (k - 1),
                  IF k < MantissaLimbs THEN LimbBits ELSE Precision - LimbBits * (MantissaLimbs - 1))>>
         \o Mantissa(N, lo, k + 1)

\* N * 2^e (plus a nonzero fraction below bit 0 when sticky) rounded to a double:
\* to nearest, ties to even
RoundBits(N, n, e, sticky) ==
    LET lo == n - Precision
        top == 2^(Precision - LimbBits * (MantissaLimbs - 1))
        up == BitAt(N, lo - 1) = 1 /\ (sticky \/ AnyBitBelow(N, lo - 1) \/ BitAt(N, lo) = 1)
    IN  IF n = 0 THEN Zero
        ELSE IF ~up THEN [m |-> Mantissa(N, lo, 1), e |-> e + lo]
        ELSE Bind(AddCarry(Mantissa(N, lo, 1), 1),
                  LAMBDA inc : IF inc[MantissaLimbs] = top
                               THEN [m |-> Append(Zeros(MantissaLimbs - 1), top \div 2), e |-> e + lo + 1]
                               ELSE [m |-> inc, e |-> e + lo])

Round(N, e, sticky) == Bind(N, LAMBDA M : Bind(BitLen(M), LAMBDA n : RoundBits(M, n, e, sticky)))

FloatFromInt(x) == Round(<<x % LimbBase, x \div LimbBase>>, 0, FALSE)

FloatMulInt(a, x) == Bind(a, LAMBDA f : Round(MulSmall(f.m, x), f.e, FALSE))

FloatDivInt(a, x) ==
    Bind(a, LAMBDA f :
        Bind(DivSmall(ShiftLimbs(f.m, GuardLimbs), x),
             LAMBDA d : Round(d.quot, f.e - LimbBits * GuardLimbs, d.rem # 0)))

\* a <= b, for non-negative doubles
FloatLE(a, b) ==
    \/ a.m = Zero.m
    \/ /\ b.m # Zero.m
       /\ \/ a.e < b.e
          \/ /\ a.e = b.e
             /\ \E i \in 1..MantissaLimbs :
                   /\ \A j \in (i + 1)..MantissaLimbs : a.m[j] = b.m[j]
                   /\ (a.m[i] < b.m[i] \/ (i = 1 /\ a.m[1] = b.m[1]))

(***************************************************************************)
(* Hyperparameters (module level, lines 26-46).                            *)
(***************************************************************************)
ModuleHparams ==
    [eval_interval |-> 600, save_interval |-> 1000, eval_iters |-> 100, log_interval |-> 1,
     devices |-> 1, micro_batch_size |-> 2, epoch_size |-> 50000, num_epochs |-> 5]

eval_interval == hparams.eval_interval
save_interval == hparams.save_interval
devices == hparams.devices
micro_batch_size == hparams.micro_batch_size
epoch_size == hparams.epoch_size
num_epochs == hparams.num_epochs

\* learning_rate = 3e-3: the double nearest to 3/1000
learning_rate == FloatDivInt(FloatFromInt(3), 1000)

\* batch_size = 128 / devices is a float; kept as the fraction num/den
batch_size == [num |-> 128, den |-> devices]

\* batch_size // micro_batch_size (a float with an integral value)
gradient_accumulation_iters == batch_size.num \div (batch_size.den * micro_batch_size)

max_iters == (num_epochs * (epoch_size \div micro_batch_size)) \div devices

\* 2 * (epoch_size // micro_batch_size) // devices // gradient_accumulation_iters
warmup_steps == ((2 * (epoch_size \div micro_batch_size)) \div devices) \div gradient_accumulation_iters

\* the processes fabric.launch starts, named by their global rank
Ranks == 0..(devices - 1)

global_rank(p) == p

(***************************************************************************)
(* The model's parameters. GPT(config) of lit_gpt.adapter holds the        *)
(* pretrained (checkpoint) weights and the adapter-v1 weights, which the   *)
(* checkpoint does not contain (lines 99-102);                             *)
(* add_adapter_v2_parameters_to_linear_layers adds the adapter-v2 ones.    *)
(***************************************************************************)
CheckpointParams == {"transformer.wte.weight", "transformer.h.0.attn.attn.linear.weight", "lm_head.linear.weight"}
AdapterV1Params == {"transformer.h.0.attn.gating_factor", "transformer.h.0.attn.adapter_wte.weight"}
AdapterV2Params == {"transformer.h.0.attn.attn.adapter_bias", "transformer.h.0.attn.attn.adapter_scale"}

\* GPT(config); model.apply(model._init_weights)
GPT == CheckpointParams \cup AdapterV1Params

\* lit_gpt.adapter_v2.adapter_filter: does the name belong to an adapter
adapter_filter(name) == name \in AdapterV1Params \cup AdapterV2Params

\* lit_gpt.adapter_v2.add_adapter_v2_parameters_to_linear_layers(model)
add_adapter_v2_parameters_to_linear_layers(ps) == ps \cup AdapterV2Params

\* lit_gpt.adapter_v2.mark_only_adapter_v2_as_trainable(model): the new requires_grad
mark_only_adapter_v2_as_trainable(ps) == {name \in ps : adapter_filter(name)}

\* a slip: every parameter of the model is handed to the optimizer
all_parameters(p) == params[p]

\* trainable_params = [p for p in model.parameters() if p.requires_grad]
trainable_params(p) == {name \in params[p] : name \in requires_grad[p]}

\* the seeds of main(): the common one and the per-rank one
common_seed == 1337

\* a slip: the second seed_everything forgets the rank
rank_seed_without_rank(p) == 1337

rank_seed(p) == 1337 + global_rank(p)

(***************************************************************************)
(* File names and saving.                                                  *)
(***************************************************************************)
ckpt_width == 6

RECURSIVE Digits(_)
Digits(n) == IF n < 10 THEN <<n>> ELSE Append(Digits(n \div 10), n % 10)

\* format(n, "06d"), n >= 0: the decimal digits, zero-padded to ckpt_width
Format06d(n) ==
    LET d == Digits(n)
    IN  IF Len(d) >= ckpt_width THEN d ELSE Zeros(ckpt_width - Len(d)) \o d

\* a slip: the checkpoint name does not carry the iteration number
checkpoint_path_unnumbered(n) == [stem |-> "iter-", digits |-> Zeros(ckpt_width), suffix |-> "-ckpt.pth"]

\* out_dir / f"iter-{iter_num:06d}-ckpt.pth"
checkpoint_path(n) == [stem |-> "iter-", digits |-> Format06d(n), suffix |-> "-ckpt.pth"]

\* out_dir / "lit_model_adapter_finetuned.pth"
final_path == [stem |-> "lit_model_adapter_finetuned", digits |-> <<>>, suffix |-> ".pth"]

\* a slip: fabric.save without the filter writes the whole model
save_whole_model(p, file_path) == [path |-> file_path, keys |-> params[p]]

\* fabric.save(file_path, {"model": model}, filter={"model": adapter_filter}):
\* the call, with the keys of the model state it writes
save_adapter_v2_checkpoint(p, file_path) ==
    [path |-> file_path, keys |-> {name \in params[p] : adapter_filter(name)}]

(***************************************************************************)
(* The conditions and expressions of train().                              *)
(***************************************************************************)
\* line 155: if step_count <= warmup_steps
in_warmup(step) == step <= warmup_steps

\* a slip: the warmup counts the step about to be taken
warmup_lr_next_step(step) == FloatDivInt(FloatMulInt(learning_rate, step + 1), warmup_steps)

\* line 157: lr = learning_rate * step_count / warmup_steps
warmup_lr(step) == FloatDivInt(FloatMulInt(learning_rate, step), warmup_steps)

\* a slip: the off-by-one of testing iter_num instead of iter_num + 1
accumulating_off_by_one(n) == n % gradient_accumulation_iters # 0

\* line 167: is_accumulating = (iter_num + 1) % gradient_accumulation_iters != 0
accumulating(n) == (n + 1) % gradient_accumulation_iters # 0

\* a slip: the synchronisation is never suppressed
no_backward_sync_disabled(acc) == FALSE

\* line 168: fabric.no_backward_sync(model, enabled=is_accumulating)
no_backward_sync(acc) == acc

\* line 173: fabric.backward(loss / gradient_accumulation_iters)
backward_divisor == gradient_accumulation_iters

\* a slip: the test of is_accumulating is forgotten
should_validate_any_iteration(p, acc, step) == step % eval_interval = 0

\* a slip: only global rank 0 validates
should_validate_rank_zero(p, acc, step) == ~acc /\ step % eval_interval = 0 /\ global_rank(p) = 0

\* line 200: if not is_accumulating and step_count % eval_interval == 0
should_validate(p, acc, step) == ~acc /\ step % eval_interval = 0

\* line 207: if not is_accumulating and step_count % save_interval == 0
should_save(p, acc, step) == ~acc /\ step % save_interval = 0

\* where the iteration goes after line 206, and after lines 175-181
AfterValidate(p, acc, step) == IF should_save(p, acc, step) THEN "save" ELSE "loop"
AfterUpdate(p, acc, step) == IF should_validate(p, acc, step) THEN "validate" ELSE AfterValidate(p, acc, step)

(***************************************************************************)
(* Initial states.                                                         *)
(***************************************************************************)
MaxDevices == 2
MaxInterval == 2
ScaledMicroBatch == 32
ScaledEpochSize == 128

ScaledHparams ==
    {[ModuleHparams EXCEPT !.devices = d, !.micro_batch_size = ScaledMicroBatch,
                           !.epoch_size = ScaledEpochSize, !.eval_interval = e, !.save_interval = s] :
        d \in 1..MaxDevices, e \in 1..MaxInterval, s \in 1..MaxInterval}

Start ==
    /\ gradient_accumulation_iters > 0          \* the module's assert, line 39
    /\ pc = [p \in Ranks |-> "seed_everything"]
    /\ seed = [p \in Ranks |-> 0]
    /\ init_seed = [p \in Ranks |-> 0]
    /\ makedirs_by = {}
    /\ params = [p \in Ranks |-> {}]
    /\ requires_grad = [p \in Ranks |-> {}]
    /\ loaded = [p \in Ranks |-> {}]
    /\ meta_requires_grad = [p \in Ranks |-> {}]
    /\ opt_params = [p \in Ranks |-> {}]
    /\ fabric_setup_done = [p \in Ranks |-> FALSE]
    /\ lr = [p \in Ranks |-> Zero]
    /\ lr_writes = [p \in Ranks |-> 0]
    /\ iter_num = [p \in Ranks |-> -1]
    /\ step_count = [p \in Ranks |-> 0]
    /\ is_accumulating = [p \in Ranks |-> FALSE]
    /\ grad_count = [p \in Ranks |-> 0]
    /\ loss_divisor = [p \in Ranks |-> 0]
    /\ backward_synced = [p \in Ranks |-> FALSE]
    /\ last_step_iter = [p \in Ranks |-> -1]
    /\ validate_log = [p \in Ranks |-> <<>>]
    /\ save_log = [p \in Ranks |-> <<>>]
    /\ barrier_count = [p \in Ranks |-> 0]

Init == hparams = ModuleHparams /\ Start

InitScaled == hparams \in ScaledHparams /\ Start

\* the scaled runs whose checkpoints are the rarest: checkpointing plays no part in the barrier
InitBarrier == InitScaled /\ save_interval = MaxInterval

(***************************************************************************)
(* main(), lines 81-122.                                                   *)
(***************************************************************************)
\* line 86: fabric.seed_everything(1337)
SeedEverything(p) ==
    /\ pc[p] = "seed_everything"
    /\ seed' = [seed EXCEPT ![p] = common_seed]
    /\ pc' = [pc EXCEPT ![p] = "makedirs"]
    /\ UNCHANGED <<hparams, init_seed, makedirs_by, params, requires_grad, loaded, opt_params,
                   fabric_setup_done, meta_requires_grad, loopVars, lrVars, logVars>>

\* lines 88-89: if fabric.global_rank == 0: os.makedirs(out_dir, exist_ok=True)
Makedirs(p) ==
    /\ pc[p] = "makedirs"
    /\ makedirs_by' = IF global_rank(p) = 0 THEN makedirs_by \cup {global_rank(p)} ELSE makedirs_by
    /\ pc' = [pc EXCEPT ![p] = "init_module"]
    /\ UNCHANGED <<hparams, seed, init_seed, params, requires_grad, loaded, opt_params,
                   fabric_setup_done, meta_requires_grad, loopVars, lrVars, logVars>>

\* lines 97-99: model = GPT(config); model.apply(model._init_weights)
InitModule(p) ==
    /\ pc[p] = "init_module"
    /\ params' = [params EXCEPT ![p] = GPT]
    /\ requires_grad' = [requires_grad EXCEPT ![p] = GPT]
    /\ init_seed' = [init_seed EXCEPT ![p] = seed[p]]
    /\ pc' = [pc EXCEPT ![p] = "load_state_dict"]
    /\ UNCHANGED <<hparams, seed, makedirs_by, loaded, opt_params,
                   fabric_setup_done, meta_requires_grad, loopVars, lrVars, logVars>>

\* lines 100-102: model.load_state_dict(checkpoint, strict=False)
LoadStateDict(p) ==
    /\ pc[p] = "load_state_dict"
    /\ loaded' = [loaded EXCEPT ![p] = params[p] \cap CheckpointParams]
    /\ pc' = [pc EXCEPT ![p] = "add_adapter"]
    /\ UNCHANGED <<hparams, seed, init_seed, makedirs_by, params, requires_grad, opt_params,
                   fabric_setup_done, meta_requires_grad, loopVars, lrVars, logVars>>

\* line 104: add_adapter_v2_parameters_to_linear_layers(model)
AddAdapter(p) ==
    /\ pc[p] = "add_adapter"
    /\ params' = [params EXCEPT ![p] = add_adapter_v2_parameters_to_linear_layers(params[p])]
    /\ requires_grad' = [requires_grad EXCEPT ![p] =
                            requires_grad[p] \cup (add_adapter_v2_parameters_to_linear_layers(params[p]) \ params[p])]
    /\ pc' = [pc EXCEPT ![p] = "mark_trainable"]
    /\ UNCHANGED <<hparams, seed, init_seed, makedirs_by, loaded, opt_params,
                   fabric_setup_done, meta_requires_grad, loopVars, lrVars, logVars>>

\* line 105: mark_only_adapter_v2_as_trainable(model)
MarkTrainable(p) ==
    /\ pc[p] = "mark_trainable"
    /\ requires_grad' = [requires_grad EXCEPT ![p] = mark_only_adapter_v2_as_trainable(params[p])]
    /\ pc' = [pc EXCEPT ![p] = "optimizer"]
    /\ UNCHANGED <<hparams, seed, init_seed, makedirs_by, params, loaded, opt_params,
                   fabric_setup_done, meta_requires_grad, loopVars, lrVars, logVars>>

\* lines 109-111: optimizer = torch.optim.AdamW(trainable_params, lr=learning_rate, ...)
BuildOptimizer(p) ==
    /\ pc[p] = "optimizer"
    /\ opt_params' = [opt_params EXCEPT ![p] = trainable_params(p)]
    /\ lr' = [lr EXCEPT ![p] = learning_rate]
    /\ pc' = [pc EXCEPT ![p] = "fabric_setup"]
    /\ UNCHANGED <<hparams, seed, init_seed, makedirs_by, params, requires_grad, loaded,
                   fabric_setup_done, meta_requires_grad, loopVars, lr_writes, logVars>>

\* line 112: model, optimizer = fabric.setup(model, optimizer)
FabricSetup(p) ==
    /\ pc[p] = "fabric_setup"
    /\ fabric_setup_done' = [fabric_setup_done EXCEPT ![p] = TRUE]
    /\ pc' = [pc EXCEPT ![p] = "seed_rank"]
    /\ UNCHANGED <<hparams, seed, init_seed, makedirs_by, params, requires_grad, loaded, opt_params,
                   meta_requires_grad, loopVars, lrVars, logVars>>

\* line 114: fabric.seed_everything(1337 + fabric.global_rank)
SeedRank(p) ==
    /\ pc[p] = "seed_rank"
    /\ seed' = [seed EXCEPT ![p] = rank_seed(p)]
    /\ pc' = [pc EXCEPT ![p] = "sanity_validate"]
    /\ UNCHANGED <<hparams, init_seed, makedirs_by, params, requires_grad, loaded, opt_params,
                   fabric_setup_done, meta_requires_grad, loopVars, lrVars, logVars>>

\* lines 121-122: save_adapter_v2_checkpoint(fabric, model, save_path), after train() returned
FinalSave(p) ==
    /\ pc[p] = "final_save"
    /\ save_log' = [save_log EXCEPT ![p] = Append(@, save_adapter_v2_checkpoint(p, final_path))]
    /\ pc' = [pc EXCEPT ![p] = "done"]
    /\ UNCHANGED <<hparams, mainVars, meta_requires_grad, loopVars, lrVars, validate_log, barrier_count>>

(***************************************************************************)
(* train(), lines 125-209.                                                 *)
(***************************************************************************)
\* line 138: validate(...)  # sanity check
SanityValidate(p) ==
    /\ pc[p] = "sanity_validate"
    /\ validate_log' = [validate_log EXCEPT ![p] =
                           Append(@, [site |-> "sanity", iter_num |-> iter_num[p], step_count |-> step_count[p]])]
    /\ pc' = [pc EXCEPT ![p] = "meta_model"]
    /\ UNCHANGED <<hparams, mainVars, meta_requires_grad, loopVars, lrVars, save_log, barrier_count>>

\* lines 140-146: meta_model = GPT(model.config) with the adapters, marked; step_count = 0
MetaModel(p) ==
    /\ pc[p] = "meta_model"
    /\ meta_requires_grad' = [meta_requires_grad EXCEPT ![p] =
                                 mark_only_adapter_v2_as_trainable(add_adapter_v2_parameters_to_linear_layers(GPT))]
    /\ step_count' = [step_count EXCEPT ![p] = 0]
    /\ pc' = [pc EXCEPT ![p] = "loop"]
    /\ UNCHANGED <<hparams, mainVars, iter_num, is_accumulating, grad_count, loss_divisor,
                   backward_synced, last_step_iter, lrVars, logVars>>

\* lines 154-159: the next iter_num of range(max_iters), and the linear warmup;
\* a zero warmup_steps makes line 157 raise ZeroDivisionError
LoopHead(p) ==
    /\ pc[p] = "loop"
    /\ IF iter_num[p] + 1 >= max_iters
       THEN /\ pc' = [pc EXCEPT ![p] = "final_save"]
            /\ UNCHANGED <<iter_num, lrVars>>
       ELSE /\ iter_num' = [iter_num EXCEPT ![p] = @ + 1]
            /\ IF ~in_warmup(step_count[p])
               THEN /\ pc' = [pc EXCEPT ![p] = "backward"]
                    /\ UNCHANGED lrVars
               ELSE IF warmup_steps = 0
               THEN /\ pc' = [pc EXCEPT ![p] = "crashed"]
                    /\ UNCHANGED lrVars
               ELSE /\ lr' = [lr EXCEPT ![p] = warmup_lr(step_count[p])]
                    /\ lr_writes' = [lr_writes EXCEPT ![p] = @ + 1]
                    /\ pc' = [pc EXCEPT ![p] = "backward"]
    /\ UNCHANGED <<hparams, mainVars, meta_requires_grad, step_count, is_accumulating, grad_count,
                   loss_divisor, backward_synced, last_step_iter, logVars>>

\* lines 167-175: the forward and backward pass of one micro-batch under no_backward_sync
Backward(p) ==
    /\ pc[p] = "backward"
    /\ LET acc == accumulating(iter_num[p])
       IN  /\ is_accumulating' = [is_accumulating EXCEPT ![p] = acc]
           /\ backward_synced' = [backward_synced EXCEPT ![p] = ~no_backward_sync(acc)]
           /\ grad_count' = [grad_count EXCEPT ![p] = @ + 1]
           /\ loss_divisor' = [loss_divisor EXCEPT ![p] = backward_divisor]
           /\ pc' = [pc EXCEPT ![p] = IF ~acc THEN "optimizer_step" ELSE AfterUpdate(p, acc, step_count[p])]
    /\ UNCHANGED <<hparams, mainVars, meta_requires_grad, iter_num, step_count, last_step_iter,
                   lrVars, logVars>>

\* line 176: optimizer.step()
OptimizerStep(p) ==
    /\ pc[p] = "optimizer_step"
    /\ last_step_iter' = [last_step_iter EXCEPT ![p] = iter_num[p]]
    /\ pc' = [pc EXCEPT ![p] = "zero_grad"]
    /\ UNCHANGED <<hparams, mainVars, meta_requires_grad, iter_num, step_count, is_accumulating,
                   grad_count, loss_divisor, backward_synced, lrVars, logVars>>

\* lines 177-178: optimizer.zero_grad(); step_count += 1
ZeroGrad(p) ==
    /\ pc[p] = "zero_grad"
    /\ grad_count' = [grad_count EXCEPT ![p] = 0]
    /\ step_count' = [step_count EXCEPT ![p] = @ + 1]
    /\ pc' = [pc EXCEPT ![p] = AfterUpdate(p, is_accumulating[p], step_count[p] + 1)]
    /\ UNCHANGED <<hparams, mainVars, meta_requires_grad, iter_num, is_accumulating, loss_divisor,
                   backward_synced, last_step_iter, lrVars, logVars>>

\* lines 200-205: val_loss = validate(...)
Validate(p) ==
    /\ pc[p] = "validate"
    /\ validate_log' = [validate_log EXCEPT ![p] =
                           Append(@, [site |-> "loop", iter_num |-> iter_num[p], step_count |-> step_count[p]])]
    /\ pc' = [pc EXCEPT ![p] = "barrier"]
    /\ UNCHANGED <<hparams, mainVars, meta_requires_grad, loopVars, lrVars, save_log, barrier_count>>

\* line 206: fabric.barrier(), entered
Barrier(p) ==
    /\ pc[p] = "barrier"
    /\ barrier_count' = [barrier_count EXCEPT ![p] = @ + 1]
    /\ pc' = [pc EXCEPT ![p] = "barrier_wait"]
    /\ UNCHANGED <<hparams, mainVars, meta_requires_grad, loopVars, lrVars, validate_log, save_log>>

\* line 206: fabric.barrier() returns once every process has entered it
BarrierRelease(p) ==
    /\ pc[p] = "barrier_wait"
    /\ \A q \in Ranks : barrier_count[q] >= barrier_count[p]
    /\ pc' = [pc EXCEPT ![p] = AfterValidate(p, is_accumulating[p], step_count[p])]
    /\ UNCHANGED <<hparams, mainVars, meta_requires_grad, loopVars, lrVars, logVars>>

\* lines 207-209: save_adapter_v2_checkpoint(fabric, model, checkpoint_path)
SaveCheckpoint(p) ==
    /\ pc[p] = "save"
    /\ save_log' = [save_log EXCEPT ![p] = Append(@, save_adapter_v2_checkpoint(p, checkpoint_path(iter_num[p])))]
    /\ pc' = [pc EXCEPT ![p] = "loop"]
    /\ UNCHANGED <<hparams, mainVars, meta_requires_grad, loopVars, lrVars, validate_log, barrier_count>>

(***************************************************************************)
(* The specifications.                                                     *)
(***************************************************************************)
Proc(p) ==
    \/ SeedEverything(p)
    \/ Makedirs(p)
    \/ InitModule(p)
    \/ LoadStateDict(p)
    \/ AddAdapter(p)
    \/ MarkTrainable(p)
    \/ BuildOptimizer(p)
    \/ FabricSetup(p)
    \/ SeedRank(p)
    \/ SanityValidate(p)
    \/ MetaModel(p)
    \/ LoopHead(p)
    \/ Backward(p)
    \/ OptimizerStep(p)
    \/ ZeroGrad(p)
    \/ Validate(p)
    \/ Barrier(p)
    \/ BarrierRelease(p)
    \/ SaveCheckpoint(p)
    \/ FinalSave(p)

Next == \E p \in Ranks : Proc(p)

Spec == Init /\ [][Next]_vars

SpecScaled == InitScaled /\ [][Next]_vars

\* every launched process keeps running: weak fairness of each process's steps
FairSpecScaled == InitBarrier /\ [][Next]_vars /\ \A p \in 0..(MaxDevices - 1) : WF_vars(p \in Ranks /\ Proc(p))

(***************************************************************************)
(* Positions, for the properties.                                          *)
(***************************************************************************)
\* main() before the optimizer exists
BeforeOptimizer == {"seed_everything", "makedirs", "init_module", "load_state_dict", "add_adapter",
                    "mark_trainable", "optimizer"}

\* inside the body of one iteration, after the backward pass
AfterBackward == {"optimizer_step", "zero_grad", "validate", "barrier", "barrier_wait", "save"}

\* inside the body of one iteration, after lines 175-181
AfterUpdateLines == {"validate", "barrier", "barrier_wait", "save"}

\* inside the loop of train()
InLoop == {"loop", "backward"} \cup AfterBackward

\* train() has returned
Returned == {"final_save", "done"}

\* the iteration iter_num[p] has run to its end (or the loop is over)
IterationOver(p) == iter_num[p] >= 0 /\ pc[p] \in {"loop"} \cup Returned

Min(a, b) == IF a <= b THEN a ELSE b

RECURSIVE DigitsValue(_)
DigitsValue(d) == IF d = <<>> THEN 0 ELSE 10 * DigitsValue(SubSeq(d, 1, Len(d) - 1)) + d[Len(d)]

LoopValidations(p) == SelectSeq(validate_log[p], LAMBDA v : v.site = "loop")
PeriodicSaves(p) == SelectSeq(save_log[p], LAMBDA c : c.path.stem = "iter-")
FinalSaves(p) == SelectSeq(save_log[p], LAMBDA c : c.path = final_path)

(***************************************************************************)
(* C1: gradients are accumulated over gradient_accumulation_iters          *)
(* micro-batches per optimizer step: optimizer.step() and then             *)
(* optimizer.zero_grad() run in iteration iter_num exactly when            *)
(* (iter_num + 1) % gradient_accumulation_iters = 0; at each zero_grad     *)
(* exactly gradient_accumulation_iters backward passes, each on            *)
(* loss / gradient_accumulation_iters, have run since the previous one;    *)
(* and after iteration iter_num, step_count = (iter_num + 1) div           *)
(* gradient_accumulation_iters.                                            *)
(***************************************************************************)
C1_GradientAccumulation ==
    \A p \in Ranks :
        /\ pc[p] \in {"optimizer_step", "zero_grad"} =>
              /\ (iter_num[p] + 1) % gradient_accumulation_iters = 0
              /\ grad_count[p] = gradient_accumulation_iters
              /\ loss_divisor[p] = gradient_accumulation_iters
        /\ pc[p] = "zero_grad" => last_step_iter[p] = iter_num[p]
        /\ pc[p] = "optimizer_step" => last_step_iter[p] < iter_num[p]
        /\ (iter_num[p] >= 0 /\ pc[p] \in AfterUpdateLines \cup {"loop"} \cup Returned) =>
              /\ step_count[p] = (iter_num[p] + 1) \div gradient_accumulation_iters
              /\ (last_step_iter[p] = iter_num[p]) <=> ((iter_num[p] + 1) % gradient_accumulation_iters = 0)
              /\ grad_count[p] = (iter_num[p] + 1) % gradient_accumulation_iters

\* the second optimizer step is about to clear the gradients of a full batch
C1_Witness ==
    \E p \in Ranks : pc[p] = "zero_grad" /\ step_count[p] = 1 /\ grad_count[p] = gradient_accumulation_iters
                     /\ gradient_accumulation_iters > 1

(***************************************************************************)
(* C2: linear warmup. In every iteration entered with step_count <=        *)
(* warmup_steps the lr is set to learning_rate * step_count / warmup_steps *)
(* (in double arithmetic); the lr never exceeds learning_rate, never       *)
(* decreases from one iteration to the next, is exactly learning_rate from *)
(* the first iteration entered with step_count = warmup_steps on, and is   *)
(* not written once step_count > warmup_steps.                             *)
(***************************************************************************)
C2_WarmupState ==
    \A p \in Ranks :
        /\ pc[p] \in InLoop \cup Returned =>
              /\ FloatLE(lr[p], learning_rate)
              /\ lr_writes[p] = Min(iter_num[p] + 1, (warmup_steps + 1) * gradient_accumulation_iters)
        /\ (pc[p] = "backward" /\ step_count[p] <= warmup_steps) =>
              lr[p] = FloatDivInt(FloatMulInt(learning_rate, step_count[p]), warmup_steps)
        /\ (pc[p] = "backward" /\ step_count[p] = 0) => lr[p] = Zero
        /\ (pc[p] \in {"backward", "optimizer_step"} /\ step_count[p] >= warmup_steps) => lr[p] = learning_rate

C2_WarmupStep ==
    \A p \in Ranks :
        /\ iter_num[p] >= 0 => FloatLE(lr[p], lr'[p])
        /\ (pc[p] \in InLoop /\ step_count[p] > warmup_steps) => (lr'[p] = lr[p] /\ lr_writes'[p] = lr_writes[p])

C2_LinearWarmup == [](C2_WarmupState) /\ [][C2_WarmupStep]_vars

\* the first iteration after the warmup: the lr stays at learning_rate, unwritten
C2_Witness ==
    \E p \in Ranks : /\ pc[p] = "backward"
                     /\ step_count[p] = warmup_steps + 1
                     /\ lr[p] = learning_rate
                     /\ lr_writes[p] = (warmup_steps + 1) * gradient_accumulation_iters
                     /\ lr_writes[p] <= iter_num[p]

(***************************************************************************)
(* C3: validation is periodic in optimizer steps. The first call of        *)
(* validate() is the sanity check before the loop; every other call is     *)
(* made in an iteration whose optimizer step brought step_count to a       *)
(* positive multiple of eval_interval, once for each such value of         *)
(* step_count, and never in an accumulating iteration.                     *)
(***************************************************************************)
C3_PeriodicValidation ==
    \A p \in Ranks :
        /\ pc[p] \notin BeforeOptimizer \cup {"fabric_setup", "seed_rank", "sanity_validate"} =>
              /\ Len(validate_log[p]) >= 1
              /\ validate_log[p][1] = [site |-> "sanity", iter_num |-> -1, step_count |-> 0]
              /\ Len(LoopValidations(p)) = Len(validate_log[p]) - 1
              /\ Len(LoopValidations(p)) =
                    (step_count[p] \div eval_interval) - (IF pc[p] = "validate" THEN 1 ELSE 0)
        /\ \A i \in 1..Len(LoopValidations(p)) :
              /\ LoopValidations(p)[i].step_count = i * eval_interval
              /\ LoopValidations(p)[i].iter_num = i * eval_interval * gradient_accumulation_iters - 1
        /\ pc[p] \in {"validate", "barrier", "barrier_wait"} =>
              /\ ~is_accumulating[p]
              /\ last_step_iter[p] = iter_num[p]
              /\ step_count[p] > 0
              /\ step_count[p] % eval_interval = 0

\* the second validation inside the loop has been made
C3_Witness ==
    \E p \in Ranks : /\ pc[p] = "barrier"
                     /\ Len(LoopValidations(p)) = 2
                     /\ step_count[p] = 2 * eval_interval
                     /\ gradient_accumulation_iters > 1

(***************************************************************************)
(* C4: checkpointing is periodic in optimizer steps. The i-th periodic     *)
(* checkpoint of a run is saved in the iteration whose optimizer step      *)
(* brought step_count to i * save_interval, under the name                 *)
(* iter-<iter_num, at least six digits, zero-padded>-ckpt.pth with         *)
(* iter_num = step_count * gradient_accumulation_iters - 1; one checkpoint *)
(* per such value, and no two periodic checkpoints share a name.           *)
(***************************************************************************)
C4_PeriodicCheckpoints ==
    \A p \in Ranks :
        /\ Len(PeriodicSaves(p)) =
              (step_count[p] \div save_interval)
                  - (IF pc[p] \in AfterUpdateLines /\ step_count[p] % save_interval = 0 THEN 1 ELSE 0)
        /\ \A i \in 1..Len(PeriodicSaves(p)) :
              LET path == PeriodicSaves(p)[i].path
              IN  /\ path.stem = "iter-" /\ path.suffix = "-ckpt.pth"
                  /\ Len(path.digits) >= ckpt_width
                  /\ (Len(path.digits) > ckpt_width => path.digits[1] # 0)
                  /\ \A k \in 1..Len(path.digits) : path.digits[k] \in 0..9
                  /\ DigitsValue(path.digits) = i * save_interval * gradient_accumulation_iters - 1
        /\ \A i, j \in 1..Len(PeriodicSaves(p)) :
              i # j => PeriodicSaves(p)[i].path # PeriodicSaves(p)[j].path
        /\ pc[p] = "save" =>
              /\ last_step_iter[p] = iter_num[p]
              /\ step_count[p] > 0
              /\ step_count[p] % save_interval = 0
              /\ iter_num[p] = step_count[p] * gradient_accumulation_iters - 1

\* two periodic checkpoints have been written by one process
C4_Witness ==
    \E p \in Ranks : /\ Len(PeriodicSaves(p)) = 2
                     /\ PeriodicSaves(p)[1].path # PeriodicSaves(p)[2].path
                     /\ save_interval > 1
                     /\ gradient_accumulation_iters > 1

(***************************************************************************)
(* C5: only the adapter weights are saved, and the final save comes last.  *)
(* lit_model_adapter_finetuned.pth is saved exactly once per process, only *)
(* after train() has returned from all max_iters iterations; every save    *)
(* of the run writes the model state filtered by adapter_filter, never the *)
(* whole model.                                                            *)
(***************************************************************************)
C5_AdapterOnlyFinalSave ==
    \A p \in Ranks :
        /\ Len(FinalSaves(p)) = (IF pc[p] = "done" THEN 1 ELSE 0)
        /\ pc[p] = "done" => save_log[p][Len(save_log[p])].path = final_path
        /\ pc[p] \in Returned =>
              /\ iter_num[p] = max_iters - 1
              /\ step_count[p] = max_iters \div gradient_accumulation_iters
        /\ Len(save_log[p]) = Len(PeriodicSaves(p)) + Len(FinalSaves(p))
        /\ \A i \in 1..Len(save_log[p]) :
              save_log[p][i].keys = {name \in params[p] : adapter_filter(name)}

\* a finished run: periodic checkpoints, then the final save
C5_Witness ==
    \E p \in Ranks : /\ pc[p] = "done"
                     /\ Len(save_log[p]) >= 3
                     /\ save_log[p][Len(save_log[p])].path = final_path
                     /\ save_log[p][Len(save_log[p])].keys # {}

(***************************************************************************)
(* C6: the base weights are frozen before training. The checkpoint is      *)
(* loaded before the adapter-v2 parameters are added, the marking precedes *)
(* the optimizer, the optimizer holds exactly the parameters with          *)
(* requires_grad at its construction, and from then on the optimizer's     *)
(* parameters are the adapter parameters: no checkpoint weight, and no     *)
(* change by any later step.                                               *)
(***************************************************************************)
C6_BaseWeightsFrozen ==
    \A p \in Ranks :
        /\ params[p] \cap AdapterV2Params # {} => loaded[p] = CheckpointParams
        /\ pc[p] \in BeforeOptimizer => opt_params[p] = {}
        /\ pc[p] = "optimizer" => requires_grad[p] = {name \in params[p] : adapter_filter(name)}
        /\ pc[p] \notin BeforeOptimizer =>
              /\ opt_params[p] = requires_grad[p]
              /\ opt_params[p] = AdapterV1Params \cup AdapterV2Params
              /\ opt_params[p] \cap CheckpointParams = {}
              /\ opt_params[p] \cap loaded[p] = {}

\* an optimizer step is about to update the adapter parameters only
C6_Witness ==
    \E p \in Ranks : /\ pc[p] = "optimizer_step"
                     /\ opt_params[p] # {}
                     /\ loaded[p] # {}
                     /\ opt_params[p] \cap loaded[p] = {}
                     /\ meta_requires_grad[p] # {}

(***************************************************************************)
(* C7: gradient synchronisation is suppressed exactly while accumulating.  *)
(* The backward pass of an iteration synchronises iff is_accumulating is   *)
(* false, that is iff the iteration ends with optimizer.step(); an         *)
(* optimizer step is only taken right after a synchronised backward pass.  *)
(***************************************************************************)
C7_SyncExactlyOnStep ==
    \A p \in Ranks :
        /\ pc[p] \in AfterBackward => (backward_synced[p] <=> ~is_accumulating[p])
        /\ pc[p] \in {"optimizer_step", "zero_grad"} => backward_synced[p]
        /\ IterationOver(p) =>
              /\ backward_synced[p] <=> ~is_accumulating[p]
              /\ backward_synced[p] <=> (last_step_iter[p] = iter_num[p])

\* an accumulating iteration, after an earlier step: its backward pass did not synchronise
C7_Witness ==
    \E p \in Ranks : /\ pc[p] = "loop"
                     /\ step_count[p] >= 1
                     /\ ~backward_synced[p]
                     /\ last_step_iter[p] < iter_num[p]
                     /\ last_step_iter[p] >= 0

(***************************************************************************)
(* C8: seeding and directory creation per process. Every process builds    *)
(* its model under the seed 1337; a process re-seeds, with 1337 plus its   *)
(* global rank, only after fabric.setup and before train(), so that two    *)
(* processes in train() never share a seed; only global rank 0 creates     *)
(* the output directory.                                                   *)
(***************************************************************************)
C8_SeedsAndOutDir ==
    /\ \A p \in Ranks :
          /\ pc[p] \notin {"seed_everything", "makedirs", "init_module"} => init_seed[p] = 1337
          /\ ~fabric_setup_done[p] => seed[p] \in {0, 1337}
          /\ pc[p] \in BeforeOptimizer \cup {"fabric_setup", "seed_rank"} => seed[p] \in {0, 1337}
          /\ pc[p] \in {"sanity_validate", "meta_model"} \cup InLoop \cup Returned =>
                /\ fabric_setup_done[p]
                /\ seed[p] = 1337 + p
          /\ pc[p] \notin {"seed_everything", "makedirs"} => (p \in makedirs_by <=> p = 0)
    /\ \A p, q \in Ranks :
          (/\ p # q
           /\ pc[p] \in {"sanity_validate", "meta_model"} \cup InLoop
           /\ pc[q] \in {"sanity_validate", "meta_model"} \cup InLoop) => seed[p] # seed[q]
    /\ \A p, q \in Ranks :
          (pc[p] \notin {"seed_everything", "makedirs", "init_module"}
           /\ pc[q] \notin {"seed_everything", "makedirs", "init_module"}) => init_seed[p] = init_seed[q]
    /\ makedirs_by \subseteq {0}

\* two processes train at once, under different seeds, their models built under the same seed
C8_Witness ==
    \E p, q \in Ranks : /\ p # q
                        /\ pc[p] = "backward" /\ pc[q] = "backward"
                        /\ seed[p] # seed[q]
                        /\ init_seed[p] = init_seed[q]
                        /\ makedirs_by = {0}

(***************************************************************************)
(* C9: no computed gradient is left unapplied: when train() has returned,  *)
(* no backward pass has run since the last optimizer.zero_grad().          *)
(***************************************************************************)
C9_NoGradientLeftUnapplied ==
    \A p \in Ranks : pc[p] \in Returned => grad_count[p] = 0

(***************************************************************************)
(* C10: the barrier after validation cannot deadlock. The processes enter  *)
(* fabric.barrier() in the same iterations and equally often, and a        *)
(* process that has entered the barrier is eventually released and         *)
(* finishes the run.                                                       *)
(***************************************************************************)
C10_BarrierAgreement ==
    /\ \A p \in Ranks :
          barrier_count[p] = Len(LoopValidations(p)) - (IF pc[p] = "barrier" THEN 1 ELSE 0)
    /\ \A p, q \in Ranks :
          /\ \A i \in 1..Min(Len(LoopValidations(p)), Len(LoopValidations(q))) :
                LoopValidations(p)[i] = LoopValidations(q)[i]
          /\ (pc[p] = "done" /\ pc[q] = "done") => barrier_count[p] = barrier_count[q]
          /\ (pc[p] \in {"save", "loop", "backward", "optimizer_step", "zero_grad", "validate", "barrier"} \cup Returned)
                => barrier_count[q] >= barrier_count[p]

C10_BarrierLive ==
    [](C10_BarrierAgreement)
    /\ \A p \in 0..(MaxDevices - 1) :
          (p \in Ranks /\ pc[p] = "barrier_wait") ~> (p \in Ranks /\ pc[p] = "done")

\* one process waits in the barrier while another has not yet entered it
C10_Witness ==
    \E p, q \in Ranks : /\ pc[p] = "barrier_wait"
                        /\ barrier_count[q] < barrier_count[p]
                        /\ barrier_count[p] >= 2

====
